---------------------------- MODULE Spec2Model ----------------------------
(***************************************************************************)
(* Model of the plugin packaging pipeline of supernote-sudoku-plugin:      *)
(* buildPlugin.sh (variant "sh") and the PowerShell build script           *)
(* (variant "ps", src/unnamed/part_004).                                   *)
(*                                                                         *)
(* Representation choices                                                  *)
(*  - A class or package name is the tuple of its dot-separated segments:  *)
(*    com.example.FooPackage is <<"com","example","FooPackage">>.  A name  *)
(*    is "dotted" when it has more than one segment.                        *)
(*  - A dependency module name is the tuple of its characters, so that     *)
(*    lower-casing and prefix matching are computed, not looked up.        *)
(*  - A manifest document (PluginConfig.json) is a function from the field *)
(*    names it contains to their values; a field is present iff it is in   *)
(*    the DOMAIN.  JSON object member order is not modelled.               *)
(*  - A source file is the sequence of the facts its text holds, each with *)
(*    the lexical context it occurs in (code, block comment, whole-line    *)
(*    comment, trailing line comment).                                      *)
(***************************************************************************)
EXTENDS Integers, Sequences, FiniteSets, TLC

VARIABLES
    variant,              \* "sh" (buildPlugin.sh) or "ps" (PowerShell script)
    project,              \* the project tree the pipeline reads
    pc,                   \* position of the current run in Main
    runNo,                \* number of runs started so far
    rootCfg,              \* <project>/PluginConfig.json
    genDir,               \* whether <project>/build/generated exists
    genCfg,               \* <project>/build/generated/PluginConfig.json
    genFiles,             \* the other files in build/generated
    apkOutputs,           \* files under android/app/build/outputs/apk
    zipFile,              \* the zip archive in build/outputs
    snplgFile,            \* <name>.snplg in build/outputs
    projectReactPkgs,     \* result of the application scan of this run
    thirdPartyNativeMods, \* result of the node_modules scan of this run
    shouldBuildNative,    \* the build decision of this run
    buildSuccess,         \* result of the native build of this run
    exitCode,             \* exit code of the last finished run
    runLog,               \* stages executed by this run, in order
    rootAtCreation,       \* the root manifest as it was when it first existed
    prevRun,              \* what the run before the current one did and left
    requireCheck,         \* -RequireReactPackagesCheck as passed to Build-AndroidApk
    scanFile,             \* scanner specification: the file scanned
    scanDone,             \* scanner specification: whether it has been scanned
    scanSites,            \* scanner specification: the resolved call sites per variant
    scanOut,              \* scanner specification: the references found per variant
    classMod,             \* classifier specification: the dependency module
    classDone,            \* classifier specification: whether it has been classified
    classOut,             \* classifier specification: the result per variant
    mergeDoc,             \* merge specification: the staging manifest
    mergePkgs,            \* merge specification: the package list applied
    mergeHist,            \* merge specification: the manifest after each application
    pendingOpenSettings,  \* application: the module-level flag of index.js
    appPhase,             \* application: unmounted, rendered or subscribed
    currentView,          \* application: the state currentView of App
    renderPending,        \* application: a re-render of App is scheduled
    appEvents             \* application: the button events and reads so far

pipeVars == << variant, project, pc, runNo, rootCfg, genDir, genCfg, genFiles,
               apkOutputs, zipFile, snplgFile, projectReactPkgs,
               thirdPartyNativeMods, shouldBuildNative, buildSuccess, exitCode,
               runLog, rootAtCreation, prevRun, requireCheck >>
scanVars == << scanFile, scanDone, scanSites, scanOut >>
classVars == << classMod, classDone, classOut >>
mergeVars == << mergeDoc, mergePkgs, mergeHist >>
appVars == << pendingOpenSettings, appPhase, currentView, renderPending, appEvents >>
auxVars == << scanVars, classVars, mergeVars, appVars >>
vars == << pipeVars, auxVars >>

Variants == {"sh", "ps"}

-----------------------------------------------------------------------------
(* Names and their order *)

\* Every segment the model's sources use, in code-point order
\* (upper-case letters sort before lower-case ones).
SegOrder ==
    << "BarPackage", "FooPackage", "Helper", "MainReactPackage", "PluginPackage",
       "Subpackage", "SvgPackage", "bar", "com", "example", "facebook", "lib", "note",
       "plugincore", "pluginlib", "ratta", "react", "shell", "supernote",
       "svg" >>

SegRank(s) == CHOOSE i \in 1..Len(SegOrder) : SegOrder[i] = s

\* String order of two dotted names: '.' sorts before every identifier
\* character, so the order is the lexicographic order of the segment tuples.
RECURSIVE NameLess(_, _)
NameLess(a, b) ==
    IF a = <<>> THEN b # <<>>
    ELSE IF b = <<>> THEN FALSE
    ELSE IF Head(a) = Head(b) THEN NameLess(Tail(a), Tail(b))
    ELSE SegRank(Head(a)) < SegRank(Head(b))

Range(s) == { s[i] : i \in DOMAIN s }

\* sorted(set) / sort -u / Sort-Object -Unique: the duplicate-free ascending list.
RECURSIVE SortUnique(_)
SortUnique(S) ==
    IF S = {} THEN <<>>
    ELSE LET m == CHOOSE x \in S : \A y \in S : x = y \/ NameLess(x, y)
         IN  <<m>> \o SortUnique(S \ {m})

Last(s) == s[Len(s)]

\* fqcn.endswith("Package"): the comparison distinguishes letter case.
EndsWithPackage(fqcn) ==
    /\ fqcn # <<>>
    /\ Last(fqcn) \in { "BarPackage", "FooPackage", "MainReactPackage",
                        "PluginPackage", "SvgPackage" }

\* $fqcn -match 'Package$': the -match operator ignores letter case, so a
\* name ending with "package" matches as well.
MatchesPackage(fqcn) ==
    /\ fqcn # <<>>
    /\ Last(fqcn) \in { "BarPackage", "FooPackage", "MainReactPackage",
                        "PluginPackage", "SvgPackage", "Subpackage" }

\* The suffix test of each script.
AcceptedAsPackage(v, fqcn) ==
    IF v = "sh" THEN EndsWithPackage(fqcn) ELSE MatchesPackage(fqcn)

-----------------------------------------------------------------------------
(* Source Scanner and Symbol Resolver *)

\* A source file is a sequence of items [kind, ctx, name, var]:
\*   kind "package"  : package <name>
\*        "import"   : import <name>
\*        "assignK"  : val|var <var> = <name>(
\*        "assignJT" : <Type> <var> = new <name>(
\*        "assignJ"  : <var> = new <name>(
\*        "addCtor"  : add(<name>(
\*        "addNew"   : add(new <name>(    or packages.add(new <name>(
\*        "addVar"   : add(<var>)
\*   ctx  "code"  : ordinary code
\*        "block" : inside /* ... */
\*        "line"  : on a line that starts with //
\*        "trail" : after // that follows code on the same line
Item(kind, ctx, name, var) == [kind |-> kind, ctx |-> ctx, name |-> name, var |-> var]

OfKind(text, kinds) == SelectSeq(text, LAMBDA it : it.kind \in kinds)

\* imports[fq.split(".")[-1]] = fq for every import in text order: the last
\* import of a short name wins.
ImportTable(text) ==
    LET imps == OfKind(text, {"import"})
        shorts == { Last(imps[i].name) : i \in DOMAIN imps }
    IN  [ s \in shorts |->
            imps[CHOOSE i \in DOMAIN imps :
                    /\ Last(imps[i].name) = s
                    /\ \A j \in DOMAIN imps : Last(imps[j].name) = s => j <= i].name ]

\* The first package declaration of the text, <<>> when there is none.
PackageOf(text) ==
    LET pk == OfKind(text, {"package"})
    IN  IF pk = <<>> THEN <<>> ELSE pk[1].name

\* re_block.sub then re_line.sub: block comments and every // ... to the end
\* of the line are removed before any pattern is applied.
ShStrip(file) == SelectSeq(file, LAMBDA it : it.ctx = "code")

\* Mutant of ShResolve: the declared package is consulted before the imports.
ShResolve_PackageFirst(name, imports, pkg) ==
    IF Len(name) > 1 THEN name
    ELSE IF pkg # <<>> THEN pkg \o name
    ELSE IF name[1] \in DOMAIN imports THEN imports[name[1]]
    ELSE name

\* The resolution chain of the shell scanner.
ShResolve(name, imports, pkg) ==
    IF Len(name) > 1 THEN name
    ELSE IF name[1] \in DOMAIN imports THEN imports[name[1]]
    ELSE IF pkg # <<>> THEN pkg \o name
    ELSE name

\* The call sites the shell scanner finds in one file, each with the class
\* reference matched and the fully-qualified name it resolves to.
ShCallSites(file) ==
    LET text == ShStrip(file)
        pkg == PackageOf(text)
        imports == ImportTable(text)
        sites == OfKind(text, {"addCtor"}) \o OfKind(text, {"addNew"})
    IN  [ i \in DOMAIN sites |->
            [ name |-> sites[i].name,
              fqcn |-> ShResolve(sites[i].name, imports, pkg) ] ]

\* The package references one file contributes (shell scanner).
ShScanFile(file) ==
    { s.fqcn : s \in { x \in Range(ShCallSites(file)) : EndsWithPackage(x.fqcn) } }

\* print("\n".join(sorted(results))) over every file of the three source roots.
ShFindManual(files) ==
    SortUnique(UNION { ShScanFile(files[i]) : i \in DOMAIN files })

\* -replace '(?m)^\s*//.*$' then '(?s)/\*.*?\*/': only whole-line comments
\* and block comments are removed; text after a trailing // stays.
PsStrip(file) == SelectSeq(file, LAMBDA it : it.ctx \in {"code", "trail"})

\* package and import patterns are anchored at the start of a line, so they
\* do not see text that follows code on the same line.
PsAnchored(text) == SelectSeq(text, LAMBDA it : it.ctx = "code")

\* $resolveFqcn
PsResolveFqcn(name, imports, packageName) ==
    IF Len(name) > 1 THEN name
    ELSE IF name[1] \in DOMAIN imports THEN imports[name[1]]
    ELSE IF packageName # <<>> THEN packageName \o name
    ELSE name

\* $varToClass: Kotlin assignments, then typed Java assignments, then Java
\* assignments (which the typed form matches as well); a later entry for the
\* same variable overwrites an earlier one.
PsVarToClass(text, imports, packageName) ==
    LET asg == OfKind(text, {"assignK"}) \o OfKind(text, {"assignJT"})
               \o OfKind(text, {"assignJT", "assignJ"})
        vs == { asg[i].var : i \in DOMAIN asg }
    IN  [ v \in vs |->
            PsResolveFqcn(
                asg[CHOOSE i \in DOMAIN asg :
                       /\ asg[i].var = v
                       /\ \A j \in DOMAIN asg : asg[j].var = v => j <= i].name,
                imports, packageName) ]

\* The constructor call sites the PowerShell scanner finds in one file
\* (add(X( and add(new X( ), each with the class reference matched and the
\* fully-qualified name $resolveFqcn gives it.
PsCallSites(file) ==
    LET text == PsStrip(file)
        packageName == PackageOf(PsAnchored(text))
        imports == ImportTable(PsAnchored(text))
        ctor == OfKind(text, {"addCtor"}) \o OfKind(text, {"addNew"})
    IN  [ i \in DOMAIN ctor |->
            [ name |-> ctor[i].name,
              fqcn |-> PsResolveFqcn(ctor[i].name, imports, packageName) ] ]

\* Mutant of PsVarSites: a variable without recorded alias is resolved as if
\* it were a class name.
PsVarSites_ResolveUnknown(file) ==
    LET text == PsStrip(file)
        packageName == PackageOf(PsAnchored(text))
        imports == ImportTable(PsAnchored(text))
        varToClass == PsVarToClass(text, imports, packageName)
        byVar == OfKind(text, {"addVar"})
    IN  [ i \in DOMAIN byVar |->
            [ var |-> byVar[i].var,
              fqcn |-> IF byVar[i].var \in DOMAIN varToClass
                       THEN varToClass[byVar[i].var]
                       ELSE PsResolveFqcn(<< byVar[i].var >>, imports, packageName) ] ]

\* The variable call sites (add(x)) whose variable has a recorded alias, each
\* with the variable and the class its alias resolves to.
PsVarSites(file) ==
    LET text == PsStrip(file)
        packageName == PackageOf(PsAnchored(text))
        imports == ImportTable(PsAnchored(text))
        varToClass == PsVarToClass(text, imports, packageName)
        byVar == SelectSeq(OfKind(text, {"addVar"}),
                           LAMBDA it : it.var \in DOMAIN varToClass)
    IN  [ i \in DOMAIN byVar |->
            [ var |-> byVar[i].var, fqcn |-> varToClass[byVar[i].var] ] ]

\* The package references one file contributes (PowerShell scanner).
PsScanFile(file) ==
    { s.fqcn : s \in { x \in Range(PsCallSites(file)) \cup Range(PsVarSites(file)) :
                         MatchesPackage(x.fqcn) } }

\* $found | Sort-Object -Unique over every file of the three source roots.
PsFindManual(files) ==
    SortUnique(UNION { PsScanFile(files[i]) : i \in DOMAIN files })

FindManualReactPackagesFromApplication(v, files) ==
    IF v = "sh" THEN ShFindManual(files) ELSE PsFindManual(files)

CallSites(v, file) == IF v = "sh" THEN ShCallSites(file) ELSE PsCallSites(file)

-----------------------------------------------------------------------------
(* Autolinking source (PackageList.java) *)

\* An autolinking source is [present, imports, news]: whether the file
\* exists, its import lines and the class names of its `new X(` expressions.
AutolinkImports(auto) ==
    LET shorts == { Last(auto.imports[i]) : i \in DOMAIN auto.imports }
    IN  [ s \in shorts |->
            auto.imports[CHOOSE i \in DOMAIN auto.imports :
                /\ Last(auto.imports[i]) = s
                /\ \A j \in DOMAIN auto.imports :
                      Last(auto.imports[j]) = s => j <= i] ]

AutolinkFound(v, auto) ==
    LET imports == AutolinkImports(auto)
        fq(n) == IF Len(n) > 1 THEN n
                 ELSE IF n[1] \in DOMAIN imports THEN imports[n[1]] ELSE n
    IN  { fq(auto.news[i]) :
            i \in { j \in DOMAIN auto.news : AcceptedAsPackage(v, fq(auto.news[j])) } }

\* The exclude list each Main passes.
ShExclude ==
    { <<"com", "facebook", "react", "shell", "MainReactPackage">>,
      <<"com", "ratta", "supernote", "note", "plugincore", "PluginPackage">>,
      <<"com", "ratta", "supernote", "pluginlib", "PluginPackage">> }

PsExclude ==
    { <<"com", "facebook", "react", "shell", "MainReactPackage">>,
      <<"com", "ratta", "supernote", "pluginlib", "PluginPackage">> }

GetReactPackagesFromAutolinkingSource(v, auto) ==
    IF ~auto.present THEN <<>>
    ELSE SortUnique(AutolinkFound(v, auto) \ (IF v = "sh" THEN ShExclude ELSE PsExclude))

-----------------------------------------------------------------------------
(* Dependency Classifier *)

UpperChars == << "A", "B", "C", "D", "E", "F", "G", "H", "I", "J", "K", "L", "M",
                 "N", "O", "P", "Q", "R", "S", "T", "U", "V", "W", "X", "Y", "Z" >>
LowerChars == << "a", "b", "c", "d", "e", "f", "g", "h", "i", "j", "k", "l", "m",
                 "n", "o", "p", "q", "r", "s", "t", "u", "v", "w", "x", "y", "z" >>

\* tr '[:upper:]' '[:lower:]' / ToLower()
ToLower(s) ==
    [ i \in DOMAIN s |->
        IF \E k \in DOMAIN UpperChars : UpperChars[k] = s[i]
        THEN LowerChars[CHOOSE k \in DOMAIN UpperChars : UpperChars[k] = s[i]]
        ELSE s[i] ]

StartsWith(s, p) == Len(s) >= Len(p) /\ SubSeq(s, 1, Len(p)) = p

Chars_react == << "r", "e", "a", "c", "t" >>
Chars_react_native == Chars_react \o << "-", "n", "a", "t", "i", "v", "e" >>
Chars_sn_plugin_lib ==
    << "s", "n", "-", "p", "l", "u", "g", "i", "n", "-", "l", "i", "b" >>
Chars_at_react_native == << "@" >> \o Chars_react_native
Chars_at_react_navigation ==
    << "@" >> \o Chars_react \o << "-", "n", "a", "v", "i", "g", "a", "t", "i", "o", "n" >>

\* Mutant of IsIgnoredModuleName: the name is compared as written.
IsIgnoredModuleName_CaseSensitive(moduleName) ==
    \/ moduleName \in { Chars_react_native, Chars_react, Chars_sn_plugin_lib }
    \/ StartsWith(moduleName, Chars_at_react_native)
    \/ StartsWith(moduleName, Chars_at_react_navigation)

\* is_ignored_module_name / Is-IgnoredModuleName
IsIgnoredModuleName(moduleName) ==
    LET lower == ToLower(moduleName)
    IN  \/ lower \in { Chars_react_native, Chars_react, Chars_sn_plugin_lib }
        \/ StartsWith(lower, Chars_at_react_native)
        \/ StartsWith(lower, Chars_at_react_navigation)

\* A dependency module is [name, android, platformsAndroid,
\* platformsAndroidNative]; each candidate subdirectory is "absent", "nosrc"
\* (exists, holds no .java/.kt file) or "src" (holds at least one).
CandidateDirs(m) == << m.android, m.platformsAndroid, m.platformsAndroidNative >>

\* [[ -d "$scan_dir" ]] && find "$scan_dir" -type f \( ... \) -quit:
\* find exits 0 whether or not a file matches, so the test is true for every
\* candidate directory that exists.
ShHasNative(m) == \E i \in 1..3 : CandidateDirs(m)[i] # "absent"

\* Test-Path $scanDir and a non-empty Get-ChildItem for *.java or *.kt.
PsHasNative(m) == \E i \in 1..3 : CandidateDirs(m)[i] = "src"

\* The names of the modules of node_modules classified native-bearing.
ScanNodeModulesNativeCode(v, nodeModules) ==
    { m.name : m \in { x \in nodeModules :
                         /\ ~IsIgnoredModuleName(x.name)
                         /\ IF v = "sh" THEN ShHasNative(x) ELSE PsHasNative(x) } }

-----------------------------------------------------------------------------
(* Manifest Mutator *)

\* A file that holds a manifest: present or not, and the document it holds.
EmptyDoc == [ f \in {} |-> "" ]
NoFile == [ present |-> FALSE, doc |-> EmptyDoc ]
FileOf(doc) == [ present |-> TRUE, doc |-> doc ]

HasField(doc, f) == f \in DOMAIN doc

\* Mutant of SetField: the document is written back with the one field only.
SetField_OnlyTarget(doc, f, v) == [ g \in {f} |-> v ]

\* .field = value on the parsed document, written back whole.
SetField(doc, f, v) ==
    [ g \in DOMAIN doc \cup {f} |-> IF g = f THEN v ELSE doc[g] ]

\* A path is the tuple of its components; <<"/", x>> is the root-relative /x.
\* The identity of the project, read from package.json.
PackageName == "sudoku"
PackageDescription == "Sudoku maker"
PackageVersion == "1.0.0"

\* new_plugin_config / New-PluginConfig
NewPluginConfig(pluginId) ==
    [ f \in { "name", "desc", "iconPath", "versionName", "versionCode",
              "pluginID", "pluginKey", "jsMainPath" } |->
        CASE f = "name" -> PackageName
          [] f = "desc" -> PackageDescription
          [] f = "iconPath" -> <<>>
          [] f = "versionName" -> PackageVersion
          [] f = "versionCode" -> "1"
          [] f = "pluginID" -> pluginId
          [] f = "pluginKey" -> PackageName
          [] f = "jsMainPath" -> "index" ]

\* Mutant of ShUpdatePluginConfigPackages: the list is appended to the
\* array the manifest already holds.
ShUpdatePluginConfigPackages_Append(root, gen, pkgs) ==
    LET cfg == IF gen.present THEN gen ELSE root
    IN  IF ~cfg.present THEN gen
        ELSE FileOf(SetField(cfg.doc, "reactPackages",
                 (IF HasField(cfg.doc, "reactPackages")
                  THEN cfg.doc["reactPackages"] ELSE <<>>) \o pkgs))

\* update_plugin_config_packages: the staging manifest file after the call.
\* The array written is the list of the non-empty lines, [] for an empty list.
ShUpdatePluginConfigPackages(root, gen, pkgs) ==
    LET cfg == IF gen.present THEN gen ELSE root
    IN  IF ~cfg.present THEN gen
        ELSE FileOf(SetField(cfg.doc, "reactPackages", pkgs))

\* Update-PluginConfigPackages: returns at once for an empty list.
PsUpdatePluginConfigPackages(root, gen, pkgs) ==
    LET cfg == IF gen.present THEN gen ELSE root
    IN  IF Len(pkgs) = 0 THEN gen
        ELSE IF ~cfg.present THEN gen
        ELSE FileOf(SetField(cfg.doc, "reactPackages", pkgs))

UpdatePluginConfigPackages(v, root, gen, pkgs) ==
    IF v = "sh" THEN ShUpdatePluginConfigPackages(root, gen, pkgs)
    ELSE PsUpdatePluginConfigPackages(root, gen, pkgs)

\* The list Main hands to the update: the sorted, duplicate-free union of the
\* application scan and the filtered autolinking list.
AllPkgs(v, appPkgs, auto) ==
    SortUnique(Range(appPkgs) \cup Range(GetReactPackagesFromAutolinkingSource(v, auto)))

NpkName == "app.npk"
NativeCodePath == << "/", NpkName >>

\* The apk copy_apk_and_update_config picks: a *custom*.apk when there is
\* one, else any other apk, else none ("").
PickApk(apks) ==
    IF "app-custom-debug.apk" \in apks THEN "app-custom-debug.apk"
    ELSE IF apks # {} THEN CHOOSE a \in apks : TRUE
    ELSE ""

\* The icon source file copy_icon_and_update_path resolves from the root
\* manifest: its path, <<>> when the root manifest configures none.
ConfiguredIcon(root) ==
    IF root.present /\ HasField(root.doc, "iconPath") THEN root.doc["iconPath"]
    ELSE <<>>

-----------------------------------------------------------------------------
(* The project trees the pipeline is run on *)

\* Bound on the number of pipeline runs over one output tree.
MaxRuns == 2

Pkg_com_example == << "com", "example" >>
Fq_Main == << "com", "facebook", "react", "shell", "MainReactPackage" >>
Fq_PluginLib == << "com", "ratta", "supernote", "pluginlib", "PluginPackage" >>
Fq_PluginCore == << "com", "ratta", "supernote", "note", "plugincore", "PluginPackage" >>
Fq_Svg == << "com", "svg", "SvgPackage" >>

\* package com.example ... add(FooPackage())
FileFoo ==
    << Item("package", "code", Pkg_com_example, ""),
       Item("addCtor", "code", << "FooPackage" >>, "") >>

\* package com.example ... val bar = FooPackage() ... add(bar)
FileAlias ==
    << Item("package", "code", Pkg_com_example, ""),
       Item("assignK", "code", << "FooPackage" >>, "bar"),
       Item("addVar", "code", <<>>, "bar") >>

\* package com.example; import com.lib.BarPackage;
\* packages.add(new BarPackage()); packages.add(new Helper());
\* packages.add(new MainReactPackage());   with import of MainReactPackage
\* foo(); // add(SvgPackage())
FileJava ==
    << Item("package", "code", Pkg_com_example, ""),
       Item("import", "code", << "com", "lib", "BarPackage" >>, ""),
       Item("import", "code", Fq_Main, ""),
       Item("addNew", "code", << "BarPackage" >>, ""),
       Item("addNew", "code", << "Helper" >>, ""),
       Item("addNew", "code", << "MainReactPackage" >>, ""),
       Item("addNew", "code", << "Subpackage" >>, ""),
       Item("addCtor", "trail", << "SvgPackage" >>, "") >>

AppSourceSets == { <<>>, << FileFoo >>, << FileAlias >>, << FileJava, FileFoo >> }

Module(name, a, pa, pan) ==
    [ name |-> name, android |-> a, platformsAndroid |-> pa,
      platformsAndroidNative |-> pan ]

Chars_React == << "R", "e", "a", "c", "t" >>
Chars_At_React_Navigation_native ==
    << "@", "R", "e", "a", "c", "t", "-", "N", "a", "v", "i", "g", "a", "t", "i",
       "o", "n", "/", "n", "a", "t", "i", "v", "e" >>
Chars_react_native_svg == Chars_react_native \o << "-", "s", "v", "g" >>
Chars_lottie == << "l", "o", "t", "t", "i", "e" >>

NodeModulesSets ==
    { {},
      { Module(Chars_react_native, "src", "absent", "absent"),
        Module(Chars_React, "absent", "src", "absent"),
        Module(Chars_At_React_Navigation_native, "src", "absent", "absent") },
      { Module(Chars_react_native, "src", "absent", "absent"),
        Module(Chars_react_native_svg, "nosrc", "absent", "src") },
      { Module(Chars_lottie, "nosrc", "absent", "absent") } }

AutolinkSources ==
    { [ present |-> FALSE, imports |-> <<>>, news |-> <<>> ],
      [ present |-> TRUE,
        imports |-> << Fq_Main, Fq_Svg >>,
        news |-> << << "MainReactPackage" >>, << "SvgPackage" >> >> ],
      [ present |-> TRUE,
        imports |-> << Fq_Main, Fq_PluginLib >>,
        news |-> << << "MainReactPackage" >>, << "PluginPackage" >>, Fq_PluginCore,
                   << "com", "lib", "Subpackage" >> >> ] }

Projects ==
    [ hasPackageJson : {TRUE}, appFiles : AppSourceSets,
      nodeModules : NodeModulesSets, autolink : AutolinkSources,
      iconExists : BOOLEAN ]
    \cup
    [ hasPackageJson : {FALSE}, appFiles : { <<>> }, nodeModules : { {} },
      autolink : { [ present |-> FALSE, imports |-> <<>>, news |-> <<>> ] },
      iconExists : {FALSE} ]

\* The plugin identifiers new_random_string may draw.
PluginIds == { "id-a", "id-b" }

IconSource == << "assets", "icon.png" >>

\* The root manifests a project may already hold before the first run: none,
\* a generated one, or a generated one whose iconPath the developer has set.
InitialRoots ==
    { NoFile,
      FileOf(NewPluginConfig("id-0")),
      FileOf(SetField(NewPluginConfig("id-0"), "iconPath", IconSource)) }

BundleName == "sudoku.bundle"
ConfigName == "PluginConfig.json"
ApkDeposits == { {}, { "app-debug.apk" }, { "app-custom-debug.apk" } }

NoArchive == [ present |-> FALSE, files |-> {}, doc |-> EmptyDoc, run |-> 0 ]

\* The entries of build/generated.
StagedEntries == genFiles \cup (IF genCfg.present THEN { ConfigName } ELSE {})

\* No run has come before.
NoRun ==
    [ log |-> <<>>, ok |-> FALSE, root |-> NoFile, cfg |-> NoFile,
      zip |-> NoArchive, snplg |-> NoArchive, files |-> {} ]

-----------------------------------------------------------------------------
(* Pipeline Orchestrator: Main, one action per stage *)

IdleScan == /\ scanFile = <<>>
            /\ scanDone = FALSE
            /\ scanSites = [ v \in Variants |-> <<>> ]
            /\ scanOut = [ v \in Variants |-> <<>> ]
NoModule == [ name |-> <<>>, android |-> "absent", platformsAndroid |-> "absent",
              platformsAndroidNative |-> "absent" ]
IdleClass == /\ classMod = NoModule
             /\ classDone = FALSE
             /\ classOut = [ v \in Variants |-> [ native |-> FALSE, build |-> FALSE ] ]
IdleMerge == /\ mergeDoc = NoFile
             /\ mergePkgs = <<>>
             /\ mergeHist = <<>>
IdleApp == /\ pendingOpenSettings = FALSE
           /\ appPhase = "unmounted"
           /\ currentView = "NONE"
           /\ renderPending = FALSE
           /\ appEvents = <<>>

Init ==
    /\ variant \in Variants
    /\ project \in Projects
    /\ pc = "idle"
    /\ runNo = 0
    /\ rootCfg \in InitialRoots
    /\ rootAtCreation = rootCfg
    /\ prevRun = NoRun
    /\ requireCheck = FALSE
    /\ genDir = FALSE
    /\ genCfg = NoFile
    /\ genFiles = {}
    /\ apkOutputs = {}
    /\ zipFile = NoArchive
    /\ snplgFile = NoArchive
    /\ projectReactPkgs = <<>>
    /\ thirdPartyNativeMods = {}
    /\ shouldBuildNative = FALSE
    /\ buildSuccess = FALSE
    /\ exitCode = 0
    /\ runLog = <<>>
    /\ IdleScan
    /\ IdleClass
    /\ IdleMerge
    /\ IdleApp

\* What a run did and left: its stages, the native build result, the staging
\* manifest and the entries of the distributable file.
RunRecord ==
    [ log |-> runLog, ok |-> buildSuccess, root |-> rootCfg, cfg |-> genCfg,
      zip |-> zipFile, snplg |-> snplgFile, files |-> snplgFile.files ]

Logged(stage) == runLog' = Append(runLog, stage)

\* The run ends: the script exits with `code`.
Finish(code) == pc' = "idle" /\ exitCode' = code

\* Main is invoked on the project.
StartRun ==
    /\ pc = "idle"
    /\ runNo < MaxRuns
    /\ runNo' = runNo + 1
    /\ pc' = "pkginfo"
    /\ runLog' = <<>>
    /\ projectReactPkgs' = <<>>
    /\ thirdPartyNativeMods' = {}
    /\ shouldBuildNative' = FALSE
    /\ buildSuccess' = FALSE
    /\ exitCode' = 0
    /\ prevRun' = RunRecord
    /\ UNCHANGED << variant, project, requireCheck, rootCfg, genDir, genCfg, genFiles, apkOutputs,
                    zipFile, snplgFile, rootAtCreation, auxVars >>

\* get_package_info / Get-PackageInfo: exit 1 without package.json.
GetPackageInfo ==
    /\ pc = "pkginfo"
    /\ Logged("pkginfo")
    /\ IF project.hasPackageJson
       THEN pc' = "gendir" /\ UNCHANGED exitCode
       ELSE Finish(1)
    /\ UNCHANGED << variant, project, prevRun, requireCheck, runNo, rootCfg, genDir, genCfg, genFiles,
                    apkOutputs, zipFile, snplgFile, projectReactPkgs,
                    thirdPartyNativeMods, shouldBuildNative, buildSuccess,
                    rootAtCreation, auxVars >>

\* ensure_build_generated_dir / Step 1 of Main.
EnsureBuildGeneratedDir ==
    /\ pc = "gendir"
    /\ genDir' = TRUE
    /\ pc' = "bundle"
    /\ UNCHANGED << variant, project, prevRun, requireCheck, runNo, rootCfg, genCfg, genFiles, apkOutputs,
                    zipFile, snplgFile, projectReactPkgs, thirdPartyNativeMods,
                    shouldBuildNative, buildSuccess, exitCode, runLog,
                    rootAtCreation, auxVars >>

\* Mutant of BuildReactNativeBundle: the result of the bundler is ignored.
BuildReactNativeBundle_IgnoreFailure ==
    /\ pc = "bundle"
    /\ \E ok \in BOOLEAN :
         IF ok
         THEN /\ genFiles' = genFiles \cup { BundleName }
              /\ Logged("bundle")
              /\ pc' = "bootstrap"
              /\ UNCHANGED exitCode
         ELSE /\ UNCHANGED genFiles
              /\ Logged("bundlefailed")
              /\ pc' = "bootstrap"
              /\ UNCHANGED exitCode
    /\ UNCHANGED << variant, project, prevRun, requireCheck, runNo, rootCfg, genDir, genCfg, apkOutputs,
                    zipFile, snplgFile, projectReactPkgs, thirdPartyNativeMods,
                    shouldBuildNative, buildSuccess, rootAtCreation, auxVars >>

\* build_react_native_bundle / Build-ReactNativeBundle.  A failing bundler
\* ends the shell script through set -e with a non-zero status; the
\* PowerShell Main returns.
BuildReactNativeBundle ==
    /\ pc = "bundle"
    /\ \E ok \in BOOLEAN :
         IF ok
         THEN /\ genFiles' = genFiles \cup { BundleName }
              /\ Logged("bundle")
              /\ pc' = "bootstrap"
              /\ UNCHANGED exitCode
         ELSE /\ UNCHANGED genFiles
              /\ Logged("bundlefailed")
              /\ Finish(IF variant = "sh" THEN 1 ELSE 0)
    /\ UNCHANGED << variant, project, prevRun, requireCheck, runNo, rootCfg, genDir, genCfg, apkOutputs,
                    zipFile, snplgFile, projectReactPkgs, thirdPartyNativeMods,
                    shouldBuildNative, buildSuccess, rootAtCreation, auxVars >>

\* Mutant of BootstrapRoot: the root manifest is generated on every run.
BootstrapRoot_Regenerate ==
    /\ pc = "bootstrap"
    /\ \E id \in PluginIds :
         /\ rootCfg' = FileOf(NewPluginConfig(id))
         /\ rootAtCreation' = rootCfg'
         /\ Logged("bootstrap")
    /\ pc' = "seed"
    /\ UNCHANGED << variant, project, prevRun, requireCheck, runNo, genDir, genCfg, genFiles, apkOutputs,
                    zipFile, snplgFile, projectReactPkgs, thirdPartyNativeMods,
                    shouldBuildNative, buildSuccess, exitCode, auxVars >>

\* Steps 3-5: the root manifest is generated, with a fresh random pluginID,
\* only when it does not exist.
BootstrapRoot ==
    /\ pc = "bootstrap"
    /\ IF rootCfg.present
       THEN UNCHANGED << rootCfg, rootAtCreation, runLog >>
       ELSE \E id \in PluginIds :
              /\ rootCfg' = FileOf(NewPluginConfig(id))
              /\ rootAtCreation' = rootCfg'
              /\ Logged("bootstrap")
    /\ pc' = "seed"
    /\ UNCHANGED << variant, project, prevRun, requireCheck, runNo, genDir, genCfg, genFiles, apkOutputs,
                    zipFile, snplgFile, projectReactPkgs, thirdPartyNativeMods,
                    shouldBuildNative, buildSuccess, exitCode, auxVars >>

\* Mutant of SeedStaging: a staging manifest that exists is kept.
SeedStaging_KeepExisting ==
    /\ pc = "seed"
    /\ genCfg' = IF genCfg.present THEN genCfg ELSE rootCfg
    /\ Logged("seed")
    /\ pc' = "icon"
    /\ UNCHANGED << variant, project, prevRun, requireCheck, runNo, rootCfg, genDir, genFiles, apkOutputs,
                    zipFile, snplgFile, projectReactPkgs, thirdPartyNativeMods,
                    shouldBuildNative, buildSuccess, exitCode, rootAtCreation,
                    auxVars >>

\* Step 6: cp "$root_cfg" "$gen_cfg" / Copy-Item ... -Force.
SeedStaging ==
    /\ pc = "seed"
    /\ genCfg' = rootCfg
    /\ Logged("seed")
    /\ pc' = "icon"
    /\ UNCHANGED << variant, project, prevRun, requireCheck, runNo, rootCfg, genDir, genFiles, apkOutputs,
                    zipFile, snplgFile, projectReactPkgs, thirdPartyNativeMods,
                    shouldBuildNative, buildSuccess, exitCode, rootAtCreation,
                    auxVars >>

\* copy_icon_and_update_path / Copy-IconAndUpdatePath.
CopyIconAndUpdatePath ==
    /\ pc = "icon"
    /\ LET icon == ConfiguredIcon(rootCfg)
       IN  IF icon # <<>> /\ project.iconExists
           THEN /\ genFiles' = genFiles \cup { Last(icon) }
                /\ genCfg' = FileOf(SetField(genCfg.doc, "iconPath", << "/", Last(icon) >>))
                /\ Logged("seticon")
           ELSE UNCHANGED << genFiles, genCfg, runLog >>
    /\ pc' = "scanapp"
    /\ UNCHANGED << variant, project, prevRun, requireCheck, runNo, rootCfg, genDir, apkOutputs, zipFile,
                    snplgFile, projectReactPkgs, thirdPartyNativeMods,
                    shouldBuildNative, buildSuccess, exitCode, rootAtCreation,
                    auxVars >>

\* Step 7.
ScanApplication ==
    /\ pc = "scanapp"
    /\ projectReactPkgs' = FindManualReactPackagesFromApplication(variant, project.appFiles)
    /\ Logged("scanapp")
    /\ pc' = "scanmods"
    /\ UNCHANGED << variant, project, prevRun, requireCheck, runNo, rootCfg, genDir, genCfg, genFiles,
                    apkOutputs, zipFile, snplgFile, thirdPartyNativeMods,
                    shouldBuildNative, buildSuccess, exitCode, rootAtCreation,
                    auxVars >>

\* Step 8.
ScanNodeModules ==
    /\ pc = "scanmods"
    /\ thirdPartyNativeMods' = ScanNodeModulesNativeCode(variant, project.nodeModules)
    /\ Logged("scanmods")
    /\ pc' = "decide"
    /\ UNCHANGED << variant, project, prevRun, requireCheck, runNo, rootCfg, genDir, genCfg, genFiles,
                    apkOutputs, zipFile, snplgFile, projectReactPkgs,
                    shouldBuildNative, buildSuccess, exitCode, rootAtCreation,
                    auxVars >>

\* Mutant of BuildCondition: native-bearing dependency modules are ignored.
BuildCondition_AppOnly(appPkgs, nativeMods) == Len(appPkgs) > 0

\* Step 9: should_build_native / $shouldBuildNative.
BuildCondition(appPkgs, nativeMods) == Len(appPkgs) > 0 \/ nativeMods # {}

\* Mutant of AfterDecision: the package list is merged and the native build
\* attempted whatever the decision.
AfterDecision_AlwaysNative(v, should) == IF v = "sh" THEN "merge" ELSE "gradle"

\* The stage that follows the decision: without native work Main goes
\* straight to packaging; otherwise the shell script merges the package list
\* before the native build, the PowerShell script after it.
AfterDecision(v, should) ==
    IF ~should THEN "outputs"
    ELSE IF v = "sh" THEN "merge" ELSE "gradle"

Decide ==
    /\ pc = "decide"
    /\ shouldBuildNative' = BuildCondition(projectReactPkgs, thirdPartyNativeMods)
    /\ Logged("decide")
    /\ pc' = AfterDecision(variant, shouldBuildNative')
    /\ UNCHANGED << variant, project, prevRun, requireCheck, runNo, rootCfg, genDir, genCfg, genFiles,
                    apkOutputs, zipFile, snplgFile, projectReactPkgs,
                    thirdPartyNativeMods, buildSuccess, exitCode, rootAtCreation,
                    auxVars >>

\* Autolinking parse, merge of the two lists and update of reactPackages.
MergePackages ==
    /\ pc = "merge"
    /\ genCfg' = UpdatePluginConfigPackages(variant, rootCfg, genCfg,
                     AllPkgs(variant, projectReactPkgs, project.autolink))
    /\ Logged("merge")
    /\ pc' = IF variant = "sh" THEN "gradle" ELSE "outputs"
    /\ UNCHANGED << variant, project, prevRun, requireCheck, runNo, rootCfg, genDir, genFiles, apkOutputs,
                    zipFile, snplgFile, projectReactPkgs, thirdPartyNativeMods,
                    shouldBuildNative, buildSuccess, exitCode, rootAtCreation,
                    auxVars >>

\* The stage after the native sub-stage.
AfterNative == IF variant = "sh" THEN "outputs" ELSE "merge"

\* Mutant of AfterBuild: the apk copy follows a failed build too.
AfterBuild_AlwaysCopy(v, ok) == "copyapk"

\* The stage after the toolchain invocation: the apk copy only after a
\* successful build.
AfterBuild(v, ok) == IF ok THEN "copyapk" ELSE IF v = "sh" THEN "outputs" ELSE "merge"

\* Mutant of StrictCheckPasses: the presence of the field is enough.
StrictCheckPasses_FieldPresent(require, cfg) ==
    ~require \/ (cfg.present /\ HasField(cfg.doc, "reactPackages"))

\* The test at the head of Build-AndroidApk: with -RequireReactPackagesCheck
\* the staged manifest must be readable and `-not $config.reactPackages`
\* false, which it is for a non-empty list only.
StrictCheckPasses(require, cfg) ==
    \/ ~require
    \/ /\ cfg.present
       /\ HasField(cfg.doc, "reactPackages")
       /\ cfg.doc["reactPackages"] # <<>>

\* build_android_apk / Build-AndroidApk: the toolchain is invoked once; a
\* successful build may leave apk files under the apk output directory.
\* Build-AndroidApk returns $false before it when the strictness test fails;
\* Main passes -RequireReactPackagesCheck:$false and build_android_apk has no
\* such test.
BuildAndroidApk ==
    /\ pc = "gradle"
    /\ IF variant = "ps" /\ ~StrictCheckPasses(requireCheck, genCfg)
       THEN /\ Logged("notbuilt")
            /\ buildSuccess' = FALSE
            /\ UNCHANGED apkOutputs
            /\ pc' = AfterBuild(variant, FALSE)
       ELSE /\ Logged("gradle")
            /\ \E ok \in BOOLEAN, dep \in ApkDeposits :
                 /\ buildSuccess' = ok
                 /\ apkOutputs' = IF ok THEN apkOutputs \cup dep ELSE apkOutputs
                 /\ ~ok => dep = {}
                 /\ pc' = AfterBuild(variant, ok)
    /\ UNCHANGED << variant, project, prevRun, requireCheck, runNo, rootCfg, genDir, genCfg, genFiles,
                    zipFile, snplgFile, projectReactPkgs, thirdPartyNativeMods,
                    shouldBuildNative, exitCode, rootAtCreation, auxVars >>

\* copy_apk_and_update_config / Copy-ApkAndUpdateConfig.
CopyApkAndUpdateConfig ==
    /\ pc = "copyapk"
    /\ IF PickApk(apkOutputs) = ""
       THEN /\ Logged("noapk")
            /\ UNCHANGED << genFiles, genCfg >>
       ELSE /\ genFiles' = genFiles \cup { NpkName }
            /\ genCfg' = FileOf(SetField((IF genCfg.present THEN genCfg ELSE rootCfg).doc,
                                         "nativeCodePackage", NativeCodePath))
            /\ Logged("setnative")
    /\ pc' = AfterNative
    /\ UNCHANGED << variant, project, prevRun, requireCheck, runNo, rootCfg, genDir, apkOutputs, zipFile,
                    snplgFile, projectReactPkgs, thirdPartyNativeMods,
                    shouldBuildNative, buildSuccess, exitCode, rootAtCreation,
                    auxVars >>

\* ensure_build_outputs_directory / New-BuildOutputsDirectory.
EnsureBuildOutputsDirectory ==
    /\ pc = "outputs"
    /\ pc' = "zip"
    /\ UNCHANGED << variant, project, prevRun, requireCheck, runNo, rootCfg, genDir, genCfg, genFiles,
                    apkOutputs, zipFile, snplgFile, projectReactPkgs,
                    thirdPartyNativeMods, shouldBuildNative, buildSuccess,
                    exitCode, runLog, rootAtCreation, auxVars >>

\* The archive of the staging directory as it is now.
ArchiveOfStaging ==
    [ present |-> TRUE, files |-> StagedEntries, doc |-> genCfg.doc, run |-> runNo ]

\* new_zip_package / New-ZipPackage with the checks Main makes before it.
\* The archiver itself may fail (zip absent, Compress-Archive throwing).  An
\* existing archive at the destination is removed before the archiver runs.
NewZipPackage ==
    /\ pc = "zip"
    /\ \E archiverOk \in BOOLEAN :
         IF ~genDir \/ StagedEntries = {}
         THEN /\ archiverOk
              /\ Logged("zipfailed")
              /\ UNCHANGED zipFile
              /\ Finish(0)
         ELSE IF archiverOk
         THEN /\ zipFile' = ArchiveOfStaging
              /\ Logged("zip")
              /\ pc' = "rename"
              /\ UNCHANGED exitCode
         ELSE /\ zipFile' = NoArchive
              /\ Logged("zipfailed")
              /\ Finish(0)
    /\ UNCHANGED << variant, project, prevRun, requireCheck, runNo, rootCfg, genDir, genCfg, genFiles,
                    apkOutputs, snplgFile, projectReactPkgs, thirdPartyNativeMods,
                    shouldBuildNative, buildSuccess, rootAtCreation, auxVars >>

\* rename_to_snplg_file copies the zip; Rename-ToSnplgFile moves it.
RenameToSnplgFile ==
    /\ pc = "rename"
    /\ snplgFile' = zipFile
    /\ zipFile' = IF variant = "sh" THEN zipFile ELSE NoArchive
    /\ Logged("rename")
    /\ Finish(0)
    /\ UNCHANGED << variant, project, prevRun, requireCheck, runNo, rootCfg, genDir, genCfg, genFiles,
                    apkOutputs, projectReactPkgs, thirdPartyNativeMods,
                    shouldBuildNative, buildSuccess, rootAtCreation, auxVars >>

Next ==
    \/ StartRun
    \/ GetPackageInfo
    \/ EnsureBuildGeneratedDir
    \/ BuildReactNativeBundle
    \/ BootstrapRoot
    \/ SeedStaging
    \/ CopyIconAndUpdatePath
    \/ ScanApplication
    \/ ScanNodeModules
    \/ Decide
    \/ MergePackages
    \/ BuildAndroidApk
    \/ CopyApkAndUpdateConfig
    \/ EnsureBuildOutputsDirectory
    \/ NewZipPackage
    \/ RenameToSnplgFile

Spec == Init /\ [][Next]_vars

-----------------------------------------------------------------------------
(* The pipeline at rest, for the specifications of single components *)

DefaultProject ==
    [ hasPackageJson |-> TRUE, appFiles |-> <<>>, nodeModules |-> {},
      autolink |-> [ present |-> FALSE, imports |-> <<>>, news |-> <<>> ],
      iconExists |-> FALSE ]

PipeAtRest ==
    /\ project = DefaultProject
    /\ pc = "off"
    /\ runNo = 0
    /\ rootAtCreation = rootCfg
    /\ prevRun = NoRun
    /\ requireCheck = FALSE
    /\ genDir = FALSE
    /\ genCfg = NoFile
    /\ genFiles = {}
    /\ apkOutputs = {}
    /\ zipFile = NoArchive
    /\ snplgFile = NoArchive
    /\ projectReactPkgs = <<>>
    /\ thirdPartyNativeMods = {}
    /\ shouldBuildNative = FALSE
    /\ buildSuccess = FALSE
    /\ exitCode = 0
    /\ runLog = <<>>

-----------------------------------------------------------------------------
(* Scanner specification: one source file, scanned by both scanners *)

Ctxs == { "code", "block", "line", "trail" }
Fq_LibFoo == << "com", "lib", "FooPackage" >>
Fq_SvgFoo == << "com", "svg", "FooPackage" >>

PkgParts == { <<>>, << Item("package", "code", Pkg_com_example, "") >> }

ImportParts ==
    { <<>>,
      << Item("import", "code", Fq_LibFoo, "") >>,
      << Item("import", "line", Fq_LibFoo, "") >>,
      << Item("import", "code", Fq_LibFoo, ""), Item("import", "code", Fq_SvgFoo, "") >> }

AliasParts ==
    { <<>>,
      << Item("assignK", "code", << "FooPackage" >>, "bar") >>,
      << Item("assignJT", "code", << "Helper" >>, "bar") >>,
      << Item("assignK", "code", << "BarPackage" >>, "FooPackage") >>,
      << Item("assignJ", "block", << "FooPackage" >>, "bar") >> }

SiteParts ==
    { << Item(k, c, n, "") >> :
        k \in { "addCtor", "addNew" },
        c \in Ctxs,
        n \in { << "FooPackage" >>, << "Helper" >>, << "com", "lib", "BarPackage" >> } }
    \cup
    { << Item("addVar", c, <<>>, x) >> : c \in Ctxs, x \in { "bar", "FooPackage", "baz" } }

TailParts ==
    { <<>>,
      << Item("addCtor", "code", << "BarPackage" >>, "") >>,
      << Item("addCtor", "code", << "Subpackage" >>, "") >> }

ScanFiles ==
    { p \o i \o a \o c \o t :
        p \in PkgParts, i \in ImportParts, a \in AliasParts, c \in SiteParts,
        t \in TailParts }

ScanInit ==
    /\ variant = "sh"
    /\ rootCfg = NoFile
    /\ PipeAtRest
    /\ scanFile \in ScanFiles
    /\ scanDone = FALSE
    /\ scanSites = [ v \in Variants |-> <<>> ]
    /\ scanOut = [ v \in Variants |-> <<>> ]
    /\ IdleClass
    /\ IdleMerge
    /\ IdleApp

\* The file is scanned by find_manual_react_packages_from_application and by
\* Find-ManualReactPackagesFromApplication.
ScanStep ==
    /\ ~scanDone
    /\ scanDone' = TRUE
    /\ scanSites' = [ v \in Variants |-> CallSites(v, scanFile) ]
    /\ scanOut' = [ v \in Variants |->
                      FindManualReactPackagesFromApplication(v, << scanFile >>) ]
    /\ UNCHANGED << pipeVars, scanFile, classVars, mergeVars, appVars >>

SpecScan == ScanInit /\ [][ScanStep]_vars

-----------------------------------------------------------------------------
(* Classifier specification: one dependency module, classified by both scripts *)

DirStates == { "absent", "nosrc", "src" }

Chars_React_Native ==
    << "R", "e", "a", "c", "t", "-", "N", "a", "t", "i", "v", "e" >>
Chars_SN_Plugin_Lib ==
    << "S", "N", "-", "P", "l", "u", "g", "i", "n", "-", "L", "i", "b" >>
Chars_at_react_native_community_slider ==
    Chars_at_react_native
    \o << "-", "c", "o", "m", "m", "u", "n", "i", "t", "y", "/", "s", "l", "i", "d",
          "e", "r" >>
Chars_reactive == Chars_react \o << "i", "v", "e" >>

ModuleNames ==
    { Chars_react, Chars_React, Chars_react_native, Chars_React_Native,
      Chars_sn_plugin_lib, Chars_SN_Plugin_Lib,
      Chars_at_react_native_community_slider, Chars_At_React_Navigation_native,
      Chars_react_native_svg, Chars_lottie, Chars_reactive }

ClassModules ==
    { Module(n, a, pa, pan) : n \in ModuleNames, a \in DirStates, pa \in DirStates,
                              pan \in DirStates }

ClassInit ==
    /\ variant = "sh"
    /\ rootCfg = NoFile
    /\ PipeAtRest
    /\ IdleScan
    /\ classMod \in ClassModules
    /\ classDone = FALSE
    /\ classOut = [ v \in Variants |-> [ native |-> FALSE, build |-> FALSE ] ]
    /\ IdleMerge
    /\ IdleApp

\* node_modules holds the module alone and the application has no call
\* site: the module is classified and the build decision taken.
ClassifyStep ==
    /\ ~classDone
    /\ classDone' = TRUE
    /\ classOut' =
         [ v \in Variants |->
             [ native |-> classMod.name \in ScanNodeModulesNativeCode(v, { classMod }),
               build |-> BuildCondition(<<>>, ScanNodeModulesNativeCode(v, { classMod })) ] ]
    /\ UNCHANGED << pipeVars, scanVars, classMod, mergeVars, appVars >>

SpecClassify == ClassInit /\ [][ClassifyStep]_vars

-----------------------------------------------------------------------------
(* Merge specification: mergePackages applied repeatedly to one staging manifest *)

\* Bound on the number of applications.
MaxApplications == 3

Fq_Foo == Pkg_com_example \o << "FooPackage" >>
Fq_Bar == << "com", "lib", "BarPackage" >>

MergeLists == { <<>>, << Fq_Foo >>, << Fq_Bar, Fq_Foo >>, << Fq_Svg >> }

MergeDocs ==
    { NoFile,
      FileOf(NewPluginConfig("id-0")),
      FileOf(SetField(NewPluginConfig("id-0"), "reactPackages", <<>>)),
      FileOf(SetField(NewPluginConfig("id-0"), "reactPackages", << Fq_Svg >>)),
      FileOf(SetField(SetField(NewPluginConfig("id-0"), "reactPackages", << Fq_Foo >>),
                      "nativeCodePackage", NativeCodePath)) }

MergeInit ==
    /\ variant \in Variants
    /\ rootCfg \in { NoFile, FileOf(NewPluginConfig("id-0")) }
    /\ PipeAtRest
    /\ IdleScan
    /\ IdleClass
    /\ IdleApp
    /\ mergeDoc \in MergeDocs
    /\ mergePkgs \in MergeLists
    /\ mergeHist = <<>>

\* update_plugin_config_packages / Update-PluginConfigPackages is called on
\* the staging manifest with the same list again.
MergeStep ==
    /\ Len(mergeHist) < MaxApplications
    /\ mergeDoc' = UpdatePluginConfigPackages(variant, rootCfg, mergeDoc, mergePkgs)
    /\ mergeHist' = Append(mergeHist, mergeDoc')
    /\ UNCHANGED << pipeVars, scanVars, classVars, mergePkgs, appVars >>

SpecMerge == MergeInit /\ [][MergeStep]_vars

-----------------------------------------------------------------------------
(* Packaging specification: the packaging stage over any staging directory *)

\* An archive left in build/outputs by an earlier run.
StaleArchive ==
    [ present |-> TRUE, files |-> { BundleName, ConfigName },
      doc |-> NewPluginConfig("id-0"), run |-> 0 ]

\* The files build/generated may hold beside the manifest.
StagingFiles == SUBSET { BundleName, NpkName, "icon.png" }

\* Main has reached its packaging stage; build/generated is absent, empty
\* or holds any of the files the earlier stages write.
PackagingInit ==
    /\ variant \in Variants
    /\ project = DefaultProject
    /\ pc = "outputs"
    /\ runNo = 1
    /\ rootCfg = FileOf(NewPluginConfig("id-0"))
    /\ rootAtCreation = rootCfg
    /\ prevRun = NoRun
    /\ requireCheck = FALSE
    /\ genDir \in BOOLEAN
    /\ genCfg \in (IF genDir THEN { NoFile, rootCfg } ELSE { NoFile })
    /\ genFiles \in (IF genDir THEN StagingFiles ELSE { {} })
    /\ apkOutputs = {}
    /\ zipFile \in (IF variant = "sh" THEN { NoArchive, StaleArchive } ELSE { NoArchive })
    /\ snplgFile \in { NoArchive, StaleArchive }
    /\ projectReactPkgs = <<>>
    /\ thirdPartyNativeMods = {}
    /\ shouldBuildNative = FALSE
    /\ buildSuccess = FALSE
    /\ exitCode = 0
    /\ runLog = <<>>
    /\ IdleScan
    /\ IdleClass
    /\ IdleMerge
    /\ IdleApp

PackagingNext ==
    \/ EnsureBuildOutputsDirectory
    \/ NewZipPackage
    \/ RenameToSnplgFile

SpecPackaging == PackagingInit /\ [][PackagingNext]_vars

-----------------------------------------------------------------------------
(* Native build specification: Build-AndroidApk called with either value of *)
(* -RequireReactPackagesCheck over any staged manifest                       *)

\* The projects whose decision is NATIVE_BUILD_REQUIRED in the PowerShell
\* script.
NativeProjects ==
    { p \in Projects :
        /\ p.hasPackageJson
        /\ BuildCondition(FindManualReactPackagesFromApplication("ps", p.appFiles),
                          ScanNodeModulesNativeCode("ps", p.nodeModules)) }

\* The staged manifests the invoker may find: none, the seeded one, and the
\* seeded one with an empty or a non-empty reactPackages list.
StagedManifests ==
    { NoFile,
      FileOf(NewPluginConfig("id-0")),
      FileOf(SetField(NewPluginConfig("id-0"), "reactPackages", <<>>)),
      FileOf(SetField(NewPluginConfig("id-0"), "reactPackages", << Fq_Foo >>)) }

\* Main of the PowerShell script has taken the decision NATIVE_BUILD_REQUIRED
\* and is about to call Build-AndroidApk.
NativeBuildInit ==
    /\ variant = "ps"
    /\ project \in NativeProjects
    /\ pc = "gradle"
    /\ runNo = 1
    /\ rootCfg = FileOf(NewPluginConfig("id-0"))
    /\ rootAtCreation = rootCfg
    /\ prevRun = NoRun
    /\ requireCheck \in BOOLEAN
    /\ genDir = TRUE
    /\ genCfg \in StagedManifests
    /\ genFiles = { BundleName }
    /\ apkOutputs = {}
    /\ zipFile = NoArchive
    /\ snplgFile = NoArchive
    /\ projectReactPkgs = FindManualReactPackagesFromApplication("ps", project.appFiles)
    /\ thirdPartyNativeMods = ScanNodeModulesNativeCode("ps", project.nodeModules)
    /\ shouldBuildNative = TRUE
    /\ buildSuccess = FALSE
    /\ exitCode = 0
    /\ runLog = << "pkginfo", "bundle", "seed", "decide" >>
    /\ IdleScan
    /\ IdleClass
    /\ IdleMerge
    /\ IdleApp

NativeBuildNext ==
    \/ BuildAndroidApk
    \/ CopyApkAndUpdateConfig
    \/ MergePackages
    \/ EnsureBuildOutputsDirectory
    \/ NewZipPackage
    \/ RenameToSnplgFile

SpecNativeBuild == NativeBuildInit /\ [][NativeBuildNext]_vars

-----------------------------------------------------------------------------
(* Application specification: the button listeners of index.js and App *)

\* The longest history of button events and flag reads followed.
MaxEvents == 6

\* checkPendingSettings: returns the flag and resets it.
CheckPendingSettings(value) ==
    /\ value = pendingOpenSettings
    /\ pendingOpenSettings' = FALSE
    /\ appEvents' = Append(appEvents, IF value THEN "readT" ELSE "readF")

\* setCurrentView(view): a changed state schedules a re-render of App.
SetCurrentView(view) ==
    /\ currentView' = view
    /\ renderPending' = (renderPending \/ currentView # view)

\* DeviceEventEmitter.emit of 'openSettings' or 'showGame': the listeners
\* exist from the effect of App until its cleanup; without them the event
\* is dropped.
Emit(view) ==
    IF appPhase = "subscribed"
    THEN SetCurrentView(view)
    ELSE UNCHANGED << currentView, renderPending >>

\* onClick of the config-button listener.
ConfigClick ==
    /\ Len(appEvents) < MaxEvents
    /\ pendingOpenSettings' = TRUE
    /\ appEvents' = Append(appEvents, "click")
    /\ Emit("SETTING")
    /\ UNCHANGED << appPhase, pipeVars, scanVars, classVars, mergeVars >>

\* onButtonPress of the main-button listener.
MainPress ==
    /\ Len(appEvents) < MaxEvents
    /\ pendingOpenSettings' = FALSE
    /\ appEvents' = Append(appEvents, "press")
    /\ Emit("GAME")
    /\ UNCHANGED << appPhase, pipeVars, scanVars, classVars, mergeVars >>

\* The first render of App: useState takes its initial value from
\* checkPendingSettings.
Mount ==
    /\ appPhase = "unmounted"
    /\ Len(appEvents) < MaxEvents
    /\ \E value \in BOOLEAN :
          /\ CheckPendingSettings(value)
          /\ currentView' = IF value THEN "SETTING" ELSE "GAME"
    /\ appPhase' = "rendered"
    /\ UNCHANGED << renderPending, pipeVars, scanVars, classVars, mergeVars >>

\* The effect of App runs after the first render and adds the listeners.
Subscribe ==
    /\ appPhase = "rendered"
    /\ appPhase' = "subscribed"
    /\ UNCHANGED << pendingOpenSettings, currentView, renderPending, appEvents,
                    pipeVars, scanVars, classVars, mergeVars >>

\* The language changes (restored from storage or reported by the system):
\* useTranslation schedules a re-render of App.
LanguageChanged ==
    /\ appPhase = "subscribed"
    /\ ~renderPending
    /\ renderPending' = TRUE
    /\ UNCHANGED << pendingOpenSettings, appPhase, currentView, appEvents,
                    pipeVars, scanVars, classVars, mergeVars >>

\* A later render of App: the argument of useState is evaluated again, its
\* value is not used.
Rerender ==
    /\ appPhase = "subscribed"
    /\ renderPending
    /\ Len(appEvents) < MaxEvents
    /\ \E value \in BOOLEAN : CheckPendingSettings(value)
    /\ renderPending' = FALSE
    /\ UNCHANGED << appPhase, currentView, pipeVars, scanVars, classVars, mergeVars >>

\* App is unmounted: the cleanup of the effect removes the listeners.
Unmount ==
    /\ appPhase = "subscribed"
    /\ appPhase' = "unmounted"
    /\ currentView' = "NONE"
    /\ renderPending' = FALSE
    /\ UNCHANGED << pendingOpenSettings, appEvents,
                    pipeVars, scanVars, classVars, mergeVars >>

AppInit ==
    /\ variant = "sh"
    /\ rootCfg = NoFile
    /\ PipeAtRest
    /\ IdleScan
    /\ IdleClass
    /\ IdleMerge
    /\ IdleApp

AppNext ==
    \/ ConfigClick
    \/ MainPress
    \/ Mount
    \/ Subscribe
    \/ LanguageChanged
    \/ Rerender
    \/ Unmount

SpecApp == AppInit /\ [][AppNext]_vars

-----------------------------------------------------------------------------
(* Claims *)

RunEnded == pc = "idle" /\ runNo > 0
Did(stage) == stage \in Range(runLog)
Times(stage) == Cardinality({ i \in DOMAIN runLog : runLog[i] = stage })

\* C1: once the decision of a run is taken, it is NATIVE_BUILD_REQUIRED
\* exactly when the application scan yielded at least one PackageReference
\* or at least one dependency module was classified native-bearing, and
\* NO_NATIVE_WORK in every other case.
C1_BuildDecision ==
    Did("decide") =>
        (shouldBuildNative <=> (projectReactPkgs # <<>> \/ thirdPartyNativeMods # {}))

\* A decision that is NATIVE_BUILD_REQUIRED because of a dependency module alone.
C1_Witness ==
    /\ Did("decide")
    /\ shouldBuildNative
    /\ projectReactPkgs = <<>>
    /\ thirdPartyNativeMods # {}

\* A run got past the decision and ended, and its scans found no package
\* reference and no native-bearing module.
C2_Premise ==
    /\ RunEnded
    /\ Did("decide")
    /\ projectReactPkgs = <<>>
    /\ thirdPartyNativeMods = {}

C3_FailedNativeBuild ==
    (Did("gradle") /\ ~buildSuccess) =>
        /\ ~Did("setnative")
        /\ ~Did("noapk")
        /\ pc # "copyapk"
        /\ Times("gradle") = 1
        /\ RunEnded =>
             /\ exitCode = 0
             /\ Did("zip") \/ Did("zipfailed")
             /\ Did("zip") => /\ Did("rename")
                              /\ snplgFile.present
                              /\ snplgFile.run = runNo

\* A run whose native build failed has ended with its archive.
C3_Witness ==
    /\ RunEnded
    /\ Did("gradle")
    /\ ~buildSuccess
    /\ Did("rename")
    /\ snplgFile.run = runNo

\* C4: the archive of a run that ended in NO_NATIVE_WORK or with a failed
\* native build holds no app.npk entry, whatever earlier runs staged.
C4_NoNativeBinaryInArchive ==
    (RunEnded /\ Did("rename") /\ (~shouldBuildNative \/ ~buildSuccess)) =>
        NpkName \notin snplgFile.files

\* C5: no step of any run changes a root manifest that exists.
C5_RootManifestFrozen == [][rootCfg.present => rootCfg' = rootCfg]_vars

\* A later run has gone through the bootstrap step over a root manifest that
\* an earlier run generated.
C5_Witness ==
    /\ runNo >= 2
    /\ pc = "seed"
    /\ ~Did("bootstrap")
    /\ rootCfg.present
    /\ rootCfg.doc["pluginID"] \in PluginIds

\* C6: every further application of mergePackages with the same list leaves
\* the staging manifest, reactPackages included, as the first one left it.
C6_MergeIdempotent ==
    \A k \in 2..Len(mergeHist) : mergeHist[k] = mergeHist[1]

\* A two-element list has been merged twice into a manifest.
C6_Witness ==
    /\ Len(mergeHist) >= 2
    /\ Len(mergePkgs) = 2
    /\ mergeHist[2].present
    /\ mergeHist[2].doc["reactPackages"] = mergePkgs

\* C7: after mergePackages was applied with an empty union of discovered
\* references, the staging manifest holds reactPackages with the empty list.
C7_EmptyUnionWritesEmptyList ==
    (/\ Did("merge")
     /\ projectReactPkgs = <<>>
     /\ GetReactPackagesFromAutolinkingSource(variant, project.autolink) = <<>>)
    => /\ HasField(genCfg.doc, "reactPackages")
       /\ genCfg.doc["reactPackages"] = <<>>

\* The references a run discovered: the application scan and the
\* autolinking list.
Discovered ==
    Range(projectReactPkgs)
    \cup Range(GetReactPackagesFromAutolinkingSource(variant, project.autolink))

\* C8: after mergePackages the staging manifest's reactPackages is the
\* ascending list of the discovered references, each exactly once and
\* nothing else; the project whose only source is com.example's
\* add(FooPackage()) gets exactly [com.example.FooPackage].
C8_ReactPackagesIsSortedUnion ==
    Did("merge") =>
        /\ HasField(genCfg.doc, "reactPackages")
        /\ LET list == genCfg.doc["reactPackages"]
           IN  /\ Range(list) = Discovered
               /\ Len(list) = Cardinality(Discovered)
               /\ \A i, j \in DOMAIN list : i < j => NameLess(list[i], list[j])
               /\ (project.appFiles = << FileFoo >> /\ ~project.autolink.present)
                     => list = << Fq_Foo >>

\* The names of ModuleNames that the deny-list covers: react-native, react
\* and sn-plugin-lib in any letter case, and names starting with
\* @react-native or @react-navigation in any letter case.
DenyListedNames ==
    { Chars_react, Chars_React, Chars_react_native, Chars_React_Native,
      Chars_sn_plugin_lib, Chars_SN_Plugin_Lib,
      Chars_at_react_native_community_slider, Chars_At_React_Navigation_native }

\* C9: a module with a deny-listed name is not classified native-bearing by
\* either script, whatever its candidate directories hold, and alone it does
\* not make the build decision NATIVE_BUILD_REQUIRED.
C9_DenyListedNeverNative ==
    (classDone /\ classMod.name \in DenyListedNames) =>
        \A v \in Variants : ~classOut[v].native /\ ~classOut[v].build

\* A deny-listed module written with upper-case letters and holding native
\* sources has been classified.
C9_Witness ==
    /\ classDone
    /\ classMod.name = Chars_At_React_Navigation_native
    /\ classMod.android = "src"
    /\ classMod.platformsAndroidNative = "src"

\* The positions of the import lines of a file, outside comments, whose
\* short name is `short`.
ImportLines(file, short) ==
    { j \in DOMAIN file :
        /\ file[j].kind = "import"
        /\ file[j].ctx = "code"
        /\ Last(file[j].name) = short }

AssignKinds == { "assignK", "assignJT", "assignJ" }

\* The fully-qualified name that scanner v gives the direct-construction
\* call site add(n()) placed in `file`.
DirectFqcn(v, file, n) ==
    LET sites == CallSites(v, file \o << Item("addCtor", "code", n, "") >>)
    IN  sites[Len(sites)].fqcn

\* C11: for every variable that a file assigns once, outside comments, from
\* a constructor call and passes bare to add outside comments, each scanner
\* reports the reference that the direct-construction call site of the same
\* class gives in that file.
C11_AliasSameAsDirect ==
    scanDone =>
        \A v \in Variants : \A a, s \in DOMAIN scanFile :
            (/\ scanFile[a].kind \in AssignKinds
             /\ scanFile[a].ctx = "code"
             /\ scanFile[s].kind = "addVar"
             /\ scanFile[s].ctx = "code"
             /\ scanFile[s].var = scanFile[a].var
             /\ \A b \in DOMAIN scanFile :
                   (scanFile[b].kind \in AssignKinds /\ scanFile[b].var = scanFile[a].var)
                       => b = a
             /\ EndsWithPackage(DirectFqcn(v, scanFile, scanFile[a].name)))
            => DirectFqcn(v, scanFile, scanFile[a].name) \in Range(scanOut[v])

\* The last stage the run executed.
LastStage == IF runLog = <<>> THEN "none" ELSE runLog[Len(runLog)]

\* C12: a run that ended at the project metadata step or at the bundler
\* step (the step failed) has a non-zero exit code, and a run that went
\* through to the distributable file has exit code zero.
C12_ExitCode ==
    RunEnded =>
        /\ LastStage \in { "pkginfo", "bundlefailed" } => exitCode # 0
        /\ Did("rename") => exitCode = 0

\* The packaging stage of the run has ended over a staging directory that
\* is absent or empty.
C13_Premise ==
    /\ RunEnded
    /\ Did("zip") \/ Did("zipfailed")
    /\ ~genDir \/ StagedEntries = {}

\* C13: when the compression step starts over an absent or empty staging
\* directory, it reports failure, the run ends as failed (non-zero exit
\* code) and the run creates no archive and no distributable file.
C13_EmptyStagingFailsRun ==
    C13_Premise =>
        /\ Did("zipfailed")
        /\ ~Did("rename")
        /\ exitCode # 0
        /\ ~(zipFile.present /\ zipFile.run = runNo)
        /\ ~(snplgFile.present /\ snplgFile.run = runNo)

\* The stages of a run that depend on the project and on the outcomes of
\* the tools: every stage but the generation of the root manifest, which
\* only the first run over a project performs.
Outcomes(log) == SelectSeq(log, LAMBDA st : st # "bootstrap")

\* A run has ended with its distributable file, the run before it had done
\* so too, and both met the same tool outcomes.
C14_Premise ==
    /\ RunEnded
    /\ runNo >= 2
    /\ Did("rename")
    /\ "rename" \in Range(prevRun.log)
    /\ Outcomes(runLog) = Outcomes(prevRun.log)
    /\ buildSuccess = prevRun.ok

\* C14: a run over the output tree of an earlier complete run, with the same
\* project and the same tool outcomes, leaves the staging manifest the
\* earlier run left and an archive with the same entries.
C14_RerunConverges ==
    C14_Premise =>
        /\ genCfg = prevRun.cfg
        /\ snplgFile.files = prevRun.files

\* A second run with a native build has reproduced the manifest, with its
\* reactPackages and nativeCodePackage, and the archive with app.npk.
C14_Witness ==
    /\ C14_Premise
    /\ Did("setnative")
    /\ HasField(genCfg.doc, "nativeCodePackage")
    /\ HasField(genCfg.doc, "reactPackages")
    /\ genCfg.doc["reactPackages"] # <<>>
    /\ NpkName \in snplgFile.files
    /\ "bootstrap" \in Range(prevRun.log)

\* The staging manifest holds nativeCodePackage only when this run decided
\* NATIVE_BUILD_REQUIRED, built successfully and copied a binary to staging.
NativeFieldJustified ==
    HasField(genCfg.doc, "nativeCodePackage") =>
        /\ shouldBuildNative
        /\ buildSuccess
        /\ Did("setnative")
        /\ NpkName \in genFiles

\* C15 as stated: at the end of every run the staging manifest holds
\* nativeCodePackage only when this run decided NATIVE_BUILD_REQUIRED, built
\* successfully and copied a binary; setNativeCodePackage is not executed
\* in NO_NATIVE_WORK.
C15_Original ==
    /\ RunEnded => NativeFieldJustified
    /\ Did("setnative") => shouldBuildNative

\* C15 as amended: the same at the end of every run that seeded the staging
\* manifest; setNativeCodePackage is executed only after a
\* NATIVE_BUILD_REQUIRED decision and a successful build.
C15_NativeFieldOnlyAfterCopy ==
    /\ (RunEnded /\ Did("seed")) => NativeFieldJustified
    /\ Did("setnative") => (shouldBuildNative /\ buildSuccess)

\* A run after one that wrote nativeCodePackage has seeded the staging
\* manifest, failed its native build and ended without the field.
C15_Witness ==
    /\ RunEnded
    /\ Did("seed")
    /\ HasField(prevRun.cfg.doc, "nativeCodePackage")
    /\ shouldBuildNative
    /\ ~buildSuccess
    /\ ~HasField(genCfg.doc, "nativeCodePackage")

\* C16: once the bundler of a run has failed, the run is over: the bundler
\* was its last stage (no manifest, scan, native build or packaging stage
\* ran), and the root manifest, the staging manifest and the output files
\* are as they were when the run started.
C16_BundlerFailureAborts ==
    Did("bundlefailed") =>
        /\ pc = "idle"
        /\ runLog = << "pkginfo", "bundlefailed" >>
        /\ rootCfg = prevRun.root
        /\ genCfg = prevRun.cfg
        /\ zipFile = prevRun.zip
        /\ snplgFile = prevRun.snplg

\* The bundler has failed in the first run over a project without root
\* manifest, and no manifest exists.
C16_Witness ==
    /\ Did("bundlefailed")
    /\ runNo = 1
    /\ ~rootCfg.present
    /\ ~genCfg.present

\* The local-alias table of a file as the resolution order describes it:
\* each variable assigned outside comments from a constructor call, with
\* the name of the class constructed (the last assignment of a variable).
AliasTable(file) ==
    LET asg == { j \in DOMAIN file : file[j].kind \in AssignKinds /\ file[j].ctx = "code" }
        vs == { file[j].var : j \in asg }
    IN  [ x \in vs |->
            file[CHOOSE j \in asg :
                    /\ file[j].var = x
                    /\ \A k \in asg : file[k].var = x => k <= j].name ]

\* The resolution order of the claim for a class reference: dotted, import
\* table, package, bare name.
OrderedResolveClass(name, file) ==
    LET lines == ImportLines(file, name[1])
        pkg == PackageOf(ShStrip(file))
    IN  IF Len(name) > 1 THEN name
        ELSE IF lines # {} THEN file[CHOOSE j \in lines : \A k \in lines : k <= j].name
        ELSE IF pkg # <<>> THEN pkg \o name
        ELSE name

\* The resolution order of the claim for a bare variable passed to add: the
\* import table before the alias table.
OrderedResolveVar(x, file) ==
    IF ImportLines(file, x) # {} THEN OrderedResolveClass(<< x >>, file)
    ELSE OrderedResolveClass(AliasTable(file)[x], file)

\* C17: for every call site outside comments, each scanner reports the name
\* the resolution order gives when that name ends with Package: a class
\* reference goes through dotted, import, package, bare; a bare variable
\* that is an import short name gives the import, else one the alias table
\* holds gives the resolved class of its alias.
C17_ResolutionOrder ==
    scanDone =>
        \A v \in Variants : \A s \in DOMAIN scanFile :
            /\ (/\ scanFile[s].kind \in { "addCtor", "addNew" }
                /\ scanFile[s].ctx = "code"
                /\ EndsWithPackage(OrderedResolveClass(scanFile[s].name, scanFile)))
               => OrderedResolveClass(scanFile[s].name, scanFile) \in Range(scanOut[v])
            /\ (/\ scanFile[s].kind = "addVar"
                /\ scanFile[s].ctx = "code"
                /\ \/ ImportLines(scanFile, scanFile[s].var) # {}
                   \/ scanFile[s].var \in DOMAIN AliasTable(scanFile)
                /\ EndsWithPackage(OrderedResolveVar(scanFile[s].var, scanFile)))
               => OrderedResolveVar(scanFile[s].var, scanFile) \in Range(scanOut[v])

\* The class names of the model's sources that end with the suffix Package.
PackageSuffixed ==
    { "BarPackage", "FooPackage", "MainReactPackage", "PluginPackage", "SvgPackage" }

\* C18: every name the application scan of a run reports, and every entry
\* the staging manifest's reactPackages holds, ends with the suffix Package.
C18_OnlyPackageSuffix ==
    /\ \A r \in Range(projectReactPkgs) : Last(r) \in PackageSuffixed
    /\ HasField(genCfg.doc, "reactPackages") =>
          \A r \in Range(genCfg.doc["reactPackages"]) : Last(r) \in PackageSuffixed

\* The file without its item at position s.
WithoutItem(file, s) ==
    SubSeq(file, 1, s - 1) \o SubSeq(file, s + 1, Len(file))

\* The positions of the call sites of a file that pass a bare variable the
\* file assigns nowhere.
UnaliasedVarSites(file) ==
    { s \in DOMAIN file :
        /\ file[s].kind = "addVar"
        /\ \A a \in DOMAIN file :
              file[a].kind \in AssignKinds => file[a].var # file[s].var }

\* C19: a call site passing a bare variable without alias changes nothing in
\* what either scanner reports for the file: the result is the one of the
\* file without that call site, and every constructor call site outside
\* comments whose name is accepted is reported.
C19_UnaliasedVariableIgnored ==
    scanDone =>
        \A v \in Variants : \A s \in UnaliasedVarSites(scanFile) :
            /\ scanOut[v] =
                 FindManualReactPackagesFromApplication(v, << WithoutItem(scanFile, s) >>)
            /\ \A c \in DOMAIN scanFile :
                  (/\ scanFile[c].kind \in { "addCtor", "addNew" }
                   /\ scanFile[c].ctx = "code"
                   /\ AcceptedAsPackage(v, DirectFqcn(v, scanFile, scanFile[c].name)))
                  => DirectFqcn(v, scanFile, scanFile[c].name) \in Range(scanOut[v])

\* A file that passes the unassigned variable FooPackage to add outside
\* comments, declares a package and also registers BarPackage has been
\* scanned: both scanners report BarPackage only.
C19_Witness ==
    /\ scanDone
    /\ \E s \in UnaliasedVarSites(scanFile) :
          scanFile[s].ctx = "code" /\ scanFile[s].var = "FooPackage"
    /\ PackageOf(scanFile) = Pkg_com_example
    /\ \A v \in Variants : scanOut[v] = << Pkg_com_example \o << "BarPackage" >> >>

\* C20: a module whose name is not deny-listed is classified native-bearing
\* by either script exactly when one of its candidate directories exists
\* and holds a .java or .kt file.
C20_NativeBearingIffSources ==
    (classDone /\ classMod.name \notin DenyListedNames) =>
        \A v \in Variants :
            classOut[v].native <=>
                (\/ classMod.android = "src"
                 \/ classMod.platformsAndroid = "src"
                 \/ classMod.platformsAndroidNative = "src")

\* The field a stage writes in the staging manifest.
TargetField(stage) ==
    CASE stage = "icon" -> { "iconPath" }
      [] stage = "copyapk" -> { "nativeCodePackage" }
      [] stage = "merge" -> { "reactPackages" }
      [] OTHER -> {}

\* C21: every step other than the seeding keeps each field of the staging
\* manifest with its value, except the one field its stage targets, and
\* adds no other field; and once a run has seeded the staging manifest,
\* every field of the root manifest is present in it.
C21_WritesKeepOtherFields ==
    /\ [](Did("seed") => DOMAIN rootCfg.doc \subseteq DOMAIN genCfg.doc)
    /\ [][(genCfg.present /\ pc # "seed") =>
             /\ genCfg'.present
             /\ DOMAIN genCfg'.doc \subseteq DOMAIN genCfg.doc \cup TargetField(pc)
             /\ \A f \in DOMAIN genCfg.doc :
                   /\ f \in DOMAIN genCfg'.doc
                   /\ f \notin TargetField(pc) => genCfg'.doc[f] = genCfg.doc[f]]_vars

\* The three writes have been applied in one run and the staging manifest
\* still holds the identity fields of the root manifest.
C21_Witness ==
    /\ Did("seticon")
    /\ Did("setnative")
    /\ Did("merge")
    /\ HasField(genCfg.doc, "reactPackages")
    /\ genCfg.doc["reactPackages"] # <<>>
    /\ genCfg.doc["nativeCodePackage"] = NativeCodePath
    /\ genCfg.doc["pluginID"] = rootCfg.doc["pluginID"]
    /\ genCfg.doc["iconPath"] # rootCfg.doc["iconPath"]

\* C22 as stated: right after the seeding step the staging manifest is the
\* one that existed when the run started, and a copy of the root manifest
\* only when there was none.
C22_Original ==
    LastStage = "seed" =>
        genCfg = (IF prevRun.cfg.present THEN prevRun.cfg ELSE rootCfg)

\* C22 as amended: right after the seeding step the staging manifest is a
\* copy of the root manifest, whether or not a staging manifest existed.
C22_SeedOverwrites ==
    LastStage = "seed" => genCfg = rootCfg

\* The seeding step has replaced a staging manifest of the earlier run that
\* differed from the root manifest.
C22_Witness ==
    /\ LastStage = "seed"
    /\ prevRun.cfg.present
    /\ prevRun.cfg # rootCfg
    /\ HasField(prevRun.cfg.doc, "reactPackages")
    /\ genCfg = rootCfg

\* Every occurrence of a stage of `first` in the run so far comes before
\* every occurrence of a stage of `then`.
Precedes(first, then) ==
    \A i, j \in DOMAIN runLog :
        (runLog[i] \in first /\ runLog[j] \in then) => i < j

\* C23: in a run that is NATIVE_BUILD_REQUIRED the native build invocation
\* and the nativeCodePackage write come before the package-list merge, and
\* the merge comes before the archive is assembled.
C23_StageOrder ==
    shouldBuildNative =>
        /\ Precedes({ "gradle", "setnative" }, { "merge" })
        /\ Precedes({ "merge" }, { "zip", "zipfailed" })
        /\ (Did("zip") \/ Did("zipfailed")) => (Did("gradle") /\ Did("merge"))

\* The file with everything that stands inside a comment removed.
Uncommented(file) == SelectSeq(file, LAMBDA it : it.ctx = "code")

\* C24: what each scanner reports for a file is what it reports for the
\* file without its commented text: block comments, whole-line comments and
\* line comments that follow code contribute no call site, import or alias.
C24_CommentsContributeNothing ==
    scanDone =>
        \A v \in Variants :
            scanOut[v] = FindManualReactPackagesFromApplication(v, << Uncommented(scanFile) >>)

\* C25: right after Build-AndroidApk returns, the toolchain was left alone
\* exactly when the strictness check was required and the staged manifest
\* carries no non-empty reactPackages list; a run in which it was left
\* alone reports the build as not done, copies no apk, goes on to the
\* packaging stage and ends with exit code 0.
C25_StrictnessCheck ==
    /\ LastStage \in { "gradle", "notbuilt" } =>
          (LastStage = "notbuilt" <=>
              (/\ requireCheck
               /\ ~(/\ genCfg.present
                    /\ HasField(genCfg.doc, "reactPackages")
                    /\ genCfg.doc["reactPackages"] # <<>>)))
    /\ Did("notbuilt") =>
          /\ ~Did("gradle")
          /\ ~buildSuccess
          /\ ~Did("setnative")
          /\ pc # "copyapk"
          /\ RunEnded => (exitCode = 0 /\ (Did("zip") \/ Did("zipfailed")))

\* A run in which the required check found an empty reactPackages list has
\* ended with its distributable file.
C25_Witness ==
    /\ RunEnded
    /\ requireCheck
    /\ Did("notbuilt")
    /\ Did("rename")
    /\ snplgFile.present

\* C26: in the archive just assembled, a nativeCodePackage of the manifest
\* is /app.npk with app.npk among the entries, and a non-empty iconPath is
\* / followed by the name of an entry.
C26_ManifestPathsAreStaged ==
    LastStage = "zip" =>
        LET d == zipFile.doc
        IN  /\ HasField(d, "nativeCodePackage") =>
                 /\ d["nativeCodePackage"] = NativeCodePath
                 /\ NpkName \in zipFile.files
            /\ (HasField(d, "iconPath") /\ d["iconPath"] # <<>>) =>
                 /\ Len(d["iconPath"]) = 2
                 /\ d["iconPath"][1] = "/"
                 /\ d["iconPath"][2] \in zipFile.files

\* C27: a distributable file that exists when a run has ended was built by
\* that run, in particular when the compression step of the run failed.
C27_NoStaleDistributable ==
    (RunEnded /\ snplgFile.present) => snplgFile.run = runNo


OtherScript(v) == IF v = "sh" THEN "ps" ELSE "sh"

\* C28: the two scripts are equivalent on the same project: the decision a
\* run has taken is the decision the other script takes on that project,
\* and the reactPackages list a run has just merged into the staging
\* manifest is the list the other script computes for that project.
C28_ScriptsEquivalent ==
    LET o == OtherScript(variant)
        oApp == FindManualReactPackagesFromApplication(o, project.appFiles)
        oMods == ScanNodeModulesNativeCode(o, project.nodeModules)
    IN  /\ Did("decide") => shouldBuildNative = BuildCondition(oApp, oMods)
        /\ (LastStage = "merge" /\ HasField(genCfg.doc, "reactPackages")) =>
               genCfg.doc["reactPackages"] = AllPkgs(o, oApp, project.autolink)


\* C29: no name of the exclusion list is in the staging manifest's
\* reactPackages, whether it came from the autolinking source or from a
\* registration site of the application sources.
C29_ExcludedNeverListed ==
    HasField(genCfg.doc, "reactPackages") =>
        Range(genCfg.doc["reactPackages"]) \cap ShExclude = {}


\* The most recent button event, "none" before the first one.
LastButton ==
    LET B == { i \in DOMAIN appEvents : appEvents[i] \in { "click", "press" } }
    IN  IF B = {} THEN "none"
        ELSE appEvents[CHOOSE i \in B : \A j \in B : j <= i]

\* C30: a mounted App whose listeners are in place and that has no re-render
\* outstanding shows the view of the most recent button event: SETTING after
\* a config-button click, GAME after a main-button press.
C30_ViewFollowsLastButton ==
    (appPhase = "subscribed" /\ ~renderPending /\ LastButton # "none") =>
        currentView = (IF LastButton = "click" THEN "SETTING" ELSE "GAME")

=============================================================================
